---- MODULE Spec2Model ----
(***************************************************************************)
(* Model of src/src/index.ts (bodil/monkey-business): the in-place array   *)
(* helpers (insert, insertOrdered, remove, removeIndex) and the lazy       *)
(* iterator adapters (takeWhile, skipWhile, partition,                      *)
(* frontBiasedPartition, findMap) and Map.prototype.getOrSet.               *)
(*                                                                         *)
(* JavaScript arrays are 0-based; they are modelled by TLA+ sequences, so  *)
(* the element at JavaScript index i is s[i + 1].                          *)
(***************************************************************************)
EXTENDS Integers, Sequences, FiniteSets, TLC

VARIABLES arr, last, chain, hist, src, pos, stages, out, map, mlast

vars == <<arr, last, chain, hist, src, pos, stages, out, map, mlast>>

arrayVars == <<arr, last, chain, hist>>
iterVars == <<src, pos, stages, out>>
mapVars == <<map, mlast>>

----------------------------------------------------------------------------
(* Bounds *)

\* longest array the array operations are driven to
MaxLen == 4
\* number of distinct comparator keys carried by array elements
NumKeys == 3
\* a number index is represented as a multiple of 1/Denom
Denom == 2
\* longest source an iterator is built on
MaxSrc == 4
\* number of distinct item values of a source
NumVals == 2
\* largest partition size
MaxSize == 3
\* how many times the consumer pulls an iterator that has returned done
MaxDones == 2

----------------------------------------------------------------------------
(* JavaScript values *)

\* the value `undefined`
Undefined == [type |-> "undefined", key |-> 0, id |-> 0]

\* the value `null`
Null == [type |-> "null", key |-> 0, id |-> 0]

\* a position of a sparse array that was never assigned
Hole == [type |-> "hole", key |-> 0, id |-> 0]

\* an object {key: k}; id is its identity (=== compares identities)
Obj(k, i) == [type |-> "object", key |-> k, id |-> i]

\* two objects per key, to tell equal-ranked elements apart
Ids == {1, 2}

Objects == {Obj(k, i) : k \in 1..NumKeys, i \in Ids}

\* element type T = object | undefined
Values == {Obj(1, i) : i \in Ids} \cup {Undefined}

\* indices -1, -1 + 1/Denom, ..., MaxLen + 1 in units of 1/Denom
Indices == (0 - Denom)..((MaxLen + 1) * Denom)

\* Number.isInteger(index)
IsInteger(index) == index % Denom = 0

\* the number n as an index argument
Num(n) == n * Denom

\* the integer a whole-number index denotes
Whole(index) == index \div Denom

----------------------------------------------------------------------------
(* Option (@bodil/opt) *)

\* Some(value)
Some(v) == [kind |-> "Some", value |-> v]

\* None
None == [kind |-> "None", value |-> Undefined]

\* Option.from(value): None for undefined, Some(value) otherwise
OptionFrom(v) == IF v = Undefined THEN None ELSE Some(v)

\* a thrown error / the returned `this`
Throw(e) == [kind |-> e, value |-> Undefined]
This == [kind |-> "this", value |-> Undefined]

----------------------------------------------------------------------------
(* Array.prototype primitives used by the helpers *)

\* this.splice(index, 0, value) for 0 <= index <= length: the array afterwards
SpliceInsert(s, index, v) ==
    SubSeq(s, 1, index) \o <<v>> \o SubSeq(s, index + 1, Len(s))

\* this.splice(index, 1) for 0 <= index < length: the array afterwards
SpliceRemove(s, index) ==
    SubSeq(s, 1, index) \o SubSeq(s, index + 2, Len(s))

\* this.indexOf(value): lowest index whose element === value, else -1
IndexOf(s, v) ==
    IF \E j \in 1..Len(s) : s[j] = v
    THEN (CHOOSE j \in 1..Len(s) : s[j] = v /\ \A h \in 1..(j - 1) : s[h] # v) - 1
    ELSE 0 - 1

\* reading an element: a hole reads as undefined
Read(v) == IF v = Hole THEN Undefined ELSE v

\* the predicates handed to removeFn: value === m.value at an index >= m.index,
\* or index === m.index
Matchers(T) ==
    [kind : {"valueFrom"}, value : T, index : 0..(MaxLen - 1)]
    \cup [kind : {"index"}, value : {Undefined}, index : 0..(MaxLen - 1)]

\* predicate(value, index, obj)
Match(m, value, index) ==
    IF m.kind = "valueFrom"
    THEN value = m.value /\ index >= m.index
    ELSE index = m.index

\* this.findIndex(predicate): lowest index whose element, a hole read as
\* undefined, satisfies the predicate, else -1
FindIndex(s, m) ==
    LET hits == {j \in 1..Len(s) : Match(m, Read(s[j]), j - 1)}
    IN IF hits # {}
       THEN (CHOOSE j \in hits : \A h \in hits : j <= h) - 1
       ELSE 0 - 1

----------------------------------------------------------------------------
(* Ordering (@bodil/core/order) *)

\* the comparators handed to insertOrdered
Comparators == {"byKeyAscending", "byKeyDescending"}

\* cmp(a, b): negative, zero or positive
Cmp(cmp, a, b) ==
    IF cmp = "byKeyAscending" THEN a.key - b.key ELSE b.key - a.key

RECURSIVE bisectLowLoop(_, _, _, _, _)
bisectLowLoop(cmp, s, v, low, high) ==
    IF low < high
    THEN LET mid == (low + high) \div 2
         IN IF Cmp(cmp, s[mid + 1], v) < 0
            THEN bisectLowLoop(cmp, s, v, mid + 1, high)
            ELSE bisectLowLoop(cmp, s, v, low, mid)
    ELSE low

\* bisectLow(cmp, array, value): leftmost insertion index
bisectLow(cmp, s, v) == bisectLowLoop(cmp, s, v, 0, Len(s))

RECURSIVE bisectHighLoop(_, _, _, _, _)
bisectHighLoop(cmp, s, v, low, high) ==
    IF low < high
    THEN LET mid == (low + high) \div 2
         IN IF Cmp(cmp, v, s[mid + 1]) < 0
            THEN bisectHighLoop(cmp, s, v, low, mid)
            ELSE bisectHighLoop(cmp, s, v, mid + 1, high)
    ELSE low

\* bisectHigh(cmp, array, value): rightmost insertion index
bisectHigh(cmp, s, v) == bisectHighLoop(cmp, s, v, 0, Len(s))

----------------------------------------------------------------------------
(* The array helpers: each maps the array to the array afterwards and the  *)
(* call's outcome                                                          *)

\* removeIndex without the integer test: splice truncates the index
removeIndex_unchecked(this, index) ==
    IF index < 0 \/ index >= Num(Len(this))
    THEN [this |-> this, result |-> None]
    ELSE [this |-> SpliceRemove(this, Whole(index)),
          result |-> OptionFrom(Read(this[Whole(index) + 1]))]

\* Array.prototype.removeIndex
removeIndex(this, index) ==
    IF ~IsInteger(index)
    THEN [this |-> this, result |-> Throw("TypeError")]
    ELSE IF index < 0 \/ index >= Num(Len(this))
    THEN [this |-> this, result |-> None]
    ELSE [this |-> SpliceRemove(this, Whole(index)),
          result |-> OptionFrom(Read(this[Whole(index) + 1]))]

\* Array.prototype.remove
remove(this, value) == removeIndex(this, Num(IndexOf(this, value)))

\* Array.prototype.removeFn
removeFn(this, predicate) == removeIndex(this, Num(FindIndex(this, predicate)))

\* Object.hasOwn(this, index): index names an assigned position
HasOwn(this, index) ==
    /\ IsInteger(index)
    /\ index >= 0
    /\ index < Num(Len(this))
    /\ this[Whole(index) + 1] # Hole

\* get that tests the element read instead of the ownership of the index
get_defined(this, index) ==
    IF HasOwn(this, index) /\ this[Whole(index) + 1] # Undefined
    THEN Some(this[Whole(index) + 1])
    ELSE None

\* Array.prototype.get / Object.get: Some iff index is an own position
get(this, index) ==
    IF HasOwn(this, index) THEN Some(this[Whole(index) + 1]) ELSE None

\* Array.prototype.present: filter skips holes and keeps value !== undefined
present(this) ==
    LET keep(value) == value # Hole /\ value # Undefined
    IN SelectSeq(this, keep)

\* Array.prototype.nonNullable: the same filter, value !== undefined
nonNullable(this) ==
    LET keep(value) == value # Hole /\ value # Undefined
    IN SelectSeq(this, keep)

\* this[index] = value for a whole index: positions skipped stay holes
assign(this, index, value) ==
    IF index < Len(this)
    THEN [this EXCEPT ![index + 1] = value]
    ELSE this \o [j \in 1..(index - Len(this)) |-> Hole] \o <<value>>

\* insert whose splice overwrites the element at index (deleteCount 1)
insert_overwrite(this, value, index) ==
    IF ~IsInteger(index)
    THEN [this |-> this, result |-> Throw("TypeError")]
    ELSE IF index > Num(Len(this)) \/ index < 0
    THEN [this |-> this, result |-> Throw("RangeError")]
    ELSE [this |-> SubSeq(this, 1, Whole(index)) \o <<value>>
                     \o SubSeq(this, Whole(index) + 2, Len(this)),
          result |-> This]

\* insert that tests the range before the integrality of index
insert_rangeFirst(this, value, index) ==
    IF index > Num(Len(this)) \/ index < 0
    THEN [this |-> this, result |-> Throw("RangeError")]
    ELSE IF ~IsInteger(index)
    THEN [this |-> this, result |-> Throw("TypeError")]
    ELSE [this |-> SpliceInsert(this, Whole(index), value), result |-> This]

\* Array.prototype.insert
insert(this, value, index) ==
    IF ~IsInteger(index)
    THEN [this |-> this, result |-> Throw("TypeError")]
    ELSE IF index > Num(Len(this)) \/ index < 0
    THEN [this |-> this, result |-> Throw("RangeError")]
    ELSE [this |-> SpliceInsert(this, Whole(index), value), result |-> This]

\* the default of insertOrdered's `duplicates` parameter
\* a default of "low" for the duplicates parameter
DuplicatesOrDefault_low(duplicates) ==
    IF duplicates = "omitted" THEN "low" ELSE duplicates

\* the parameter default duplicates = "high"
DuplicatesOrDefault(duplicates) ==
    IF duplicates = "omitted" THEN "high" ELSE duplicates

\* insertOrdered that skips the search and appends
insertOrdered_append(this, value, cmp, duplicates) ==
    insert(this, value, Num(Len(this)))

\* insertOrdered with the two bisections exchanged
insertOrdered_swapped(this, value, cmp, duplicates) ==
    insert(this, value,
           Num(IF DuplicatesOrDefault(duplicates) = "low"
               THEN bisectHigh(cmp, this, value)
               ELSE bisectLow(cmp, this, value)))

\* Array.prototype.insertOrdered
insertOrdered(this, value, cmp, duplicates) ==
    insert(this, value,
           Num(IF DuplicatesOrDefault(duplicates) = "low"
               THEN bisectLow(cmp, this, value)
               ELSE bisectHigh(cmp, this, value)))

----------------------------------------------------------------------------
(* State of the array family                                                *)
(*   arr    the array the helpers are called on                             *)
(*   last   the last call: its arguments, the array before it, its outcome  *)
(*   chain  which comparator every call so far was an insertOrdered under   *)

\* no predicate was passed
NoMatcher == [kind |-> "none", value |-> Undefined, index |-> 0]

NoCall ==
    [op |-> "none", value |-> Undefined, index |-> 0, cmp |-> "none",
     duplicates |-> "none", before |-> <<>>, result |-> This, copy |-> <<>>,
     predicate |-> NoMatcher]

Call(op, v, index, cmp, d, r) ==
    [op |-> op, value |-> v, index |-> index, cmp |-> cmp,
     duplicates |-> d, before |-> arr, result |-> r.result, copy |-> <<>>,
     predicate |-> NoMatcher]

\* the values inserted so far, while every call was an insertOrdered under
\* one comparator and one policy
NoHistory == [policy |-> "none", values |-> <<>>]

\* the keys of the map
MapKeys == {"foo", "bar"}

\* new Map(): no entries; an entry is a <<key, value>> pair
EmptyMap == {}

NoMapCall ==
    [op |-> "none", key |-> "none", value |-> Undefined, before |-> EmptyMap,
     result |-> Undefined, produced |-> 0]

\* no map is in use
MapIdle ==
    /\ map = EmptyMap
    /\ mlast = NoMapCall

\* { done: true, value: undefined }
DoneResult == [done |-> TRUE, value |-> Undefined]

\* { done: false, value }
Yield(v) == [done |-> FALSE, value |-> v]

\* what the consumer of an iterator has seen before its first call
NoPull ==
    [op |-> "none", result |-> DoneResult, yielded |-> <<>>, dones |-> 0,
     late |-> FALSE, size |-> 0, posBefore |-> 0, input |-> <<>>,
     groups |-> <<>>, asserted |-> TRUE, drained |-> FALSE,
     nexts |-> 0, stagesBefore |-> <<>>, mapFn |-> [kind |-> "none", bound |-> 0],
     applied |-> <<>>, found |-> Undefined, searched |-> FALSE,
     option |-> None]

\* no iterator is in use
IterIdle ==
    /\ src = <<>>
    /\ pos = 0
    /\ stages = <<>>
    /\ out = NoPull

\* no array is in use
ArrayIdle ==
    /\ arr = <<>>
    /\ last = NoCall
    /\ chain = "empty"
    /\ hist = NoHistory

InitArray ==
    /\ ArrayIdle
    /\ IterIdle
    /\ MapIdle

Insert(T) ==
    \E v \in T, index \in Indices :
        LET r == insert(arr, v, index)
        IN /\ Len(arr) < MaxLen
           /\ arr' = r.this
           /\ last' = Call("insert", v, index, "none", "none", r)
           /\ chain' = "mixed"
           /\ UNCHANGED hist
           /\ UNCHANGED <<iterVars, mapVars>>

InsertOrdered(T) ==
    \E v \in T, cmp \in Comparators, d \in {"low", "high", "omitted"} :
        LET r == insertOrdered(arr, v, cmp, d)
        IN /\ Len(arr) < MaxLen
           /\ arr' = r.this
           /\ last' = Call("insertOrdered", v, 0, cmp, d, r)
           /\ chain' = IF chain \in {"empty", cmp} THEN cmp ELSE "mixed"
           /\ UNCHANGED hist
           /\ UNCHANGED <<iterVars, mapVars>>

Remove(T) ==
    \E v \in T :
        LET r == remove(arr, v)
        IN /\ arr' = r.this
           /\ last' = Call("remove", v, 0, "none", "none", r)
           /\ chain' = "mixed"
           /\ UNCHANGED hist
           /\ UNCHANGED <<iterVars, mapVars>>

\* array.removeFn(predicate)
RemoveFn(T) ==
    \E m \in Matchers(T) :
        LET r == removeFn(arr, m)
        IN /\ arr' = r.this
           /\ last' = [Call("removeFn", Undefined, 0, "none", "none", r)
                          EXCEPT !.predicate = m]
           /\ chain' = "mixed"
           /\ UNCHANGED hist
           /\ UNCHANGED <<iterVars, mapVars>>

RemoveIndex ==
    \E index \in Indices :
        LET r == removeIndex(arr, index)
        IN /\ arr' = r.this
           /\ last' = Call("removeIndex", Undefined, index, "none", "none", r)
           /\ chain' = "mixed"
           /\ UNCHANGED hist
           /\ UNCHANGED <<iterVars, mapVars>>

\* array.get(index)
Get ==
    \E index \in Indices :
        /\ arr' = arr
        /\ last' = Call("get", Undefined, index, "none", "none",
                        [this |-> arr, result |-> get(arr, index)])
        /\ chain' = "mixed"
        /\ UNCHANGED hist
        /\ UNCHANGED <<iterVars, mapVars>>

\* array[index] = value
Assign ==
    \E v \in Values, index \in 0..(MaxLen - 1) :
        /\ arr' = assign(arr, index, v)
        /\ last' = [NoCall EXCEPT !.op = "assign", !.value = v,
                                  !.index = Num(index), !.before = arr]
        /\ chain' = "mixed"
        /\ UNCHANGED hist
        /\ UNCHANGED <<iterVars, mapVars>>

\* arrays of objects built by insertOrdered, under either comparator
NextOrdered ==
    \/ InsertOrdered(Objects)

SpecOrdered == InitArray /\ [][NextOrdered]_vars

\* the policy a call is made under: "low" when it passes "low", else "high"
\* (passed or left to the default)
PolicyClass(d) == IF d = "low" THEN "low" ELSE "high"

\* insertOrdered called again and again on an array that starts empty, every
\* call with the comparator and the policy of the first
InsertOrderedRepeated(T) ==
    \E v \in T, cmp \in Comparators, d \in {"low", "high", "omitted"} :
        LET r == insertOrdered(arr, v, cmp, d)
        IN /\ Len(arr) < MaxLen
           /\ chain \in {"empty", cmp}
           /\ hist.policy \in {"none", PolicyClass(d)}
           /\ arr' = r.this
           /\ last' = Call("insertOrdered", v, 0, cmp, d, r)
           /\ chain' = cmp
           /\ hist' = [policy |-> PolicyClass(d),
                       values |-> Append(hist.values, v)]
           /\ UNCHANGED <<iterVars, mapVars>>

NextStable == InsertOrderedRepeated(Objects)

SpecStable == InitArray /\ [][NextStable]_vars

\* arrays whose elements may be undefined
NextArray ==
    \/ Insert(Values)
    \/ Remove(Values)
    \/ RemoveFn(Values)
    \/ RemoveIndex
    \/ Get

SpecArray == InitArray /\ [][NextArray]_vars

\* the elements of the arrays that are filtered
FilterValues == {Obj(1, 1), Undefined, Null, Hole}

\* an array literal of up to MaxLen elements
InitFilter ==
    /\ arr \in UNION {[1..n -> FilterValues] : n \in 0..MaxLen}
    /\ last = NoCall
    /\ chain = "mixed"
    /\ hist = NoHistory
    /\ IterIdle
    /\ MapIdle

\* array.present()
Present ==
    /\ arr' = arr
    /\ last' = [NoCall EXCEPT !.op = "present", !.before = arr,
                              !.copy = present(arr)]
    /\ UNCHANGED <<chain, hist, iterVars, mapVars>>

\* array.nonNullable()
NonNullable ==
    /\ arr' = arr
    /\ last' = [NoCall EXCEPT !.op = "nonNullable", !.before = arr,
                              !.copy = nonNullable(arr)]
    /\ UNCHANGED <<chain, hist, iterVars, mapVars>>

NextFilter ==
    \/ Present
    \/ NonNullable

SpecFilter == InitFilter /\ [][NextFilter]_vars

\* arrays filled by index assignment, which leaves holes
NextSparse ==
    \/ Assign
    \/ Get
    \/ RemoveIndex
    \/ RemoveFn(Values)

SpecSparse == InitArray /\ [][NextSparse]_vars

----------------------------------------------------------------------------
(* Iterators                                                                *)
(*   src     the items of the source iterator, in order                     *)
(*   pos     how many items have been pulled from the source                *)
(*   stages  the adapters built on the source, innermost first; stage k     *)
(*           wraps stage k - 1, stage 1 wraps the source                    *)
(*   out     what the consumer of the outermost iterator has seen           *)

\* the predicates handed to takeWhile and skipWhile
Predicates == [kind : {"valueBelow", "indexBelow"}, bound : 1..(NumVals + 1)]

\* predicate(value, index)
Pred(p, value, index) ==
    IF p.kind = "valueBelow" THEN value < p.bound ELSE index < p.bound

\* the closure variables of iter.takeWhile(predicate)
TakeWhile(p) ==
    [kind |-> "takeWhile", predicate |-> p, size |-> 0,
     index |-> 0, done |-> FALSE, skipped |-> FALSE]

\* the closure variables of iter.skipWhile(predicate)
SkipWhile(p) ==
    [kind |-> "skipWhile", predicate |-> p, size |-> 0,
     index |-> 0, done |-> FALSE, skipped |-> FALSE]

\* the closure variables of iter.partition(size)
Partition(n) ==
    [kind |-> "partition", predicate |-> [kind |-> "none", bound |-> 0],
     size |-> n, index |-> 0, done |-> FALSE, skipped |-> FALSE]

\* the closure variables of iter.present()
PresentIter ==
    [kind |-> "present", predicate |-> [kind |-> "none", bound |-> 0],
     size |-> 0, index |-> 0, done |-> FALSE, skipped |-> FALSE]

\* the closure variables of iter.nonNullable()
NonNullableIter ==
    [kind |-> "nonNullable", predicate |-> [kind |-> "none", bound |-> 0],
     size |-> 0, index |-> 0, done |-> FALSE, skipped |-> FALSE]

\* the filter callbacks of present and nonNullable
Keeps(kind, item) ==
    IF kind = "present"
    THEN item # Undefined
    ELSE item # Undefined /\ item # Null

\* the iterators under test: the source alone or one adapter on it
Chains ==
    {<<>>}
    \cup {<<TakeWhile(p)>> : p \in Predicates}
    \cup {<<SkipWhile(p)>> : p \in Predicates}
    \cup {<<Partition(n)>> : n \in 1..MaxSize}

\* next() of an array iterator: the next item, or done for good
sourceNext(S) ==
    IF S.pos < Len(S.src)
    THEN [result |-> Yield(S.src[S.pos + 1]),
          S |-> [S EXCEPT !.pos = @ + 1, !.nexts = @ + 1]]
    ELSE [result |-> DoneResult, S |-> [S EXCEPT !.nexts = @ + 1]]

RECURSIVE next(_, _)
RECURSIVE skipWhileLoop(_, _)
RECURSIVE filterLoop(_, _)
RECURSIVE skipWhileLoop_dropFirst(_, _)
RECURSIVE partitionLoop(_, _, _)
RECURSIVE partitionLoop_dropPartial(_, _, _)

\* takeWhile that also yields the item its predicate rejects
takeWhileNext_inclusive(S, k) ==
    LET st == S.stages[k]
    IN IF ~st.done
       THEN LET r == next(S, k - 1)
                S1 == [r.S EXCEPT !.stages[k].index = @ + 1]
            IN IF r.result.done
               THEN r
               ELSE IF Pred(st.predicate, r.result.value, st.index)
               THEN [result |-> r.result, S |-> S1]
               ELSE [result |-> r.result,
                     S |-> [S1 EXCEPT !.stages[k].done = TRUE]]
       ELSE [result |-> DoneResult, S |-> S]

\* takeWhile that never sets its done flag
takeWhileNext_forgetful(S, k) ==
    LET st == S.stages[k]
        r == next(S, k - 1)
        S1 == [r.S EXCEPT !.stages[k].index = @ + 1]
    IN IF r.result.done
       THEN r
       ELSE IF Pred(st.predicate, r.result.value, st.index)
       THEN [result |-> r.result, S |-> S1]
       ELSE [result |-> DoneResult, S |-> S1]

\* next() of the iterator takeWhile returns
takeWhileNext(S, k) ==
    LET st == S.stages[k]
    IN IF ~st.done
       THEN LET r == next(S, k - 1)
                S1 == [r.S EXCEPT !.stages[k].index = @ + 1]
            IN IF r.result.done
               THEN r
               ELSE IF Pred(st.predicate, r.result.value, st.index)
               THEN [result |-> r.result, S |-> S1]
               ELSE [result |-> DoneResult,
                     S |-> [S1 EXCEPT !.stages[k].done = TRUE]]
       ELSE [result |-> DoneResult, S |-> [S EXCEPT !.stages[k].done = TRUE]]

\* skipWhile that also discards the first item its predicate rejects
skipWhileLoop_dropFirst(S, k) ==
    LET st == S.stages[k]
        r == next(S, k - 1)
        S1 == [r.S EXCEPT !.stages[k].index = @ + 1]
    IN IF r.result.done
       THEN r
       ELSE IF ~Pred(st.predicate, r.result.value, st.index)
       THEN next([S1 EXCEPT !.stages[k].skipped = TRUE], k - 1)
       ELSE skipWhileLoop_dropFirst(S1, k)

\* the while (true) loop of skipWhile's next()
skipWhileLoop(S, k) ==
    LET st == S.stages[k]
        r == next(S, k - 1)
        S1 == [r.S EXCEPT !.stages[k].index = @ + 1]
    IN IF r.result.done
       THEN r
       ELSE IF ~Pred(st.predicate, r.result.value, st.index)
       THEN [result |-> r.result, S |-> [S1 EXCEPT !.stages[k].skipped = TRUE]]
       ELSE skipWhileLoop(S1, k)

\* skipWhile that tests its predicate on every pull
skipWhileNext_filter(S, k) ==
    skipWhileLoop(S, k)

\* next() of the iterator skipWhile returns
skipWhileNext(S, k) ==
    IF S.stages[k].skipped THEN next(S, k - 1) ELSE skipWhileLoop(S, k)

\* partition that drops a last group shorter than size
partitionLoop_dropPartial(S, k, part) ==
    LET r == next(S, k - 1)
    IN IF r.result.done
       THEN [result |-> DoneResult,
             S |-> [r.S EXCEPT !.stages[k].done = TRUE]]
       ELSE LET part1 == Append(part, r.result.value)
            IN IF Len(part1) = S.stages[k].size
               THEN [result |-> Yield(part1), S |-> r.S]
               ELSE partitionLoop_dropPartial(r.S, k, part1)

\* the while (true) loop of partition's next()
partitionLoop(S, k, part) ==
    LET r == next(S, k - 1)
    IN IF r.result.done
       THEN [result |-> IF Len(part) > 0 THEN Yield(part) ELSE DoneResult,
             S |-> [r.S EXCEPT !.stages[k].done = TRUE]]
       ELSE LET part1 == Append(part, r.result.value)
            IN IF Len(part1) = S.stages[k].size
               THEN [result |-> Yield(part1), S |-> r.S]
               ELSE partitionLoop(r.S, k, part1)

\* partition that also yields an empty last group
partitionNext_emptyGroup(S, k) ==
    IF S.stages[k].done
    THEN [result |-> DoneResult, S |-> S]
    ELSE LET r == partitionLoop(S, k, <<>>)
         IN IF r.result.done THEN [result |-> Yield(<<>>), S |-> r.S] ELSE r

\* next() of the iterator partition returns
partitionNext(S, k) ==
    IF S.stages[k].done
    THEN [result |-> DoneResult, S |-> S]
    ELSE partitionLoop(S, k, <<>>)

\* this.filter(...): pulls until an item passes; finished for good once
\* upstream is done
filterLoop(S, k) ==
    LET r == next(S, k - 1)
    IN IF r.result.done
       THEN [result |-> DoneResult, S |-> [r.S EXCEPT !.stages[k].done = TRUE]]
       ELSE IF Keeps(S.stages[k].kind, r.result.value)
       THEN r
       ELSE filterLoop(r.S, k)

\* next() of the iterator present or nonNullable returns
filterNext(S, k) ==
    IF S.stages[k].done
    THEN [result |-> DoneResult, S |-> S]
    ELSE filterLoop(S, k)

\* next() of the iterator at level k (0 is the source)
next(S, k) ==
    IF k = 0 THEN sourceNext(S)
    ELSE IF S.stages[k].kind = "takeWhile" THEN takeWhileNext(S, k)
    ELSE IF S.stages[k].kind = "skipWhile" THEN skipWhileNext(S, k)
    ELSE IF S.stages[k].kind \in {"present", "nonNullable"}
    THEN filterNext(S, k)
    ELSE partitionNext(S, k)

\* Iterator.prototype.takeOne
takeOne(S, k) ==
    LET r == next(S, k)
    IN [option |-> IF r.result.done THEN None ELSE Some(r.result.value),
        result |-> r.result, S |-> r.S]

RECURSIVE toArrayLoop(_, _, _)
toArrayLoop(S, k, items) ==
    LET r == next(S, k)
    IN IF r.result.done
       THEN [items |-> items, S |-> r.S]
       ELSE toArrayLoop(r.S, k, Append(items, r.result.value))

\* iter.toArray(): pull until done
toArray(S, k) == toArrayLoop(S, k, <<>>)

\* input.slice(from, to) for 0 <= from <= to
Slice(input, from, to) ==
    SubSeq(input, from + 1, IF to < Len(input) THEN to ELSE Len(input))

RECURSIVE frontBiasedPartitionLoop(_, _, _, _)
\* the while (inputPos < input.length) loop of frontBiasedPartition
frontBiasedPartitionLoop(input, size, inputPos, output) ==
    IF inputPos < Len(input)
    THEN frontBiasedPartitionLoop(input, size, inputPos + size,
             Append(output, Slice(input, inputPos, inputPos + size)))
    ELSE [output |-> output, asserted |-> inputPos = Len(input)]

\* frontBiasedPartition that leaves the short group last
frontBiasedPartition_backBiased(input, size) ==
    frontBiasedPartitionLoop(input, size, 0, <<>>)

\* Iterator.prototype.frontBiasedPartition, applied to the drained input
frontBiasedPartition(input, size) ==
    LET firstLength == Len(input) % size
    IN IF firstLength > 0
       THEN frontBiasedPartitionLoop(input, size, firstLength,
                <<Slice(input, 0, firstLength)>>)
       ELSE frontBiasedPartitionLoop(input, size, 0, <<>>)

\* what mapFn returns for an item it maps
Mapped(value, index) == [type |-> "mapped", key |-> value, id |-> index]

\* mapFn(value, index): a mapping for the items f holds of, else undefined
MapFn(f, value, index) ==
    IF Pred(f, value, index) THEN Mapped(value, index) ELSE Undefined

RECURSIVE findMapLoop_fixedIndex(_, _, _, _, _)
\* findMap whose index is never advanced
findMapLoop_fixedIndex(S, k, f, index, applied) ==
    LET r == next(S, k)
    IN IF r.result.done
       THEN [found |-> Undefined, S |-> r.S, applied |-> applied]
       ELSE LET mapped == MapFn(f, r.result.value, index)
                applied1 == Append(applied, <<r.result.value, index>>)
            IN IF mapped # Undefined
               THEN [found |-> mapped, S |-> r.S, applied |-> applied1]
               ELSE findMapLoop_fixedIndex(r.S, k, f, index, applied1)

RECURSIVE findMapLoop(_, _, _, _, _)
\* the while (true) loop of findMap; applied lists the calls of mapFn
findMapLoop(S, k, f, index, applied) ==
    LET r == next(S, k)
    IN IF r.result.done
       THEN [found |-> Undefined, S |-> r.S, applied |-> applied]
       ELSE LET mapped == MapFn(f, r.result.value, index)
                applied1 == Append(applied, <<r.result.value, index>>)
            IN IF mapped # Undefined
               THEN [found |-> mapped, S |-> r.S, applied |-> applied1]
               ELSE findMapLoop(r.S, k, f, index + 1, applied1)

\* Iterator.prototype.findMap
findMap(S, k, f) == findMapLoop(S, k, f, 0, <<>>)

\* the iterators as one value
\* (nexts counts the next() calls one consumer call makes on the source)
Iter == [src |-> src, pos |-> pos, stages |-> stages, nexts |-> 0]

\* the kind of the outermost iterator
TopKind ==
    IF stages = <<>> THEN "source" ELSE stages[Len(stages)].kind

Sources == UNION {[1..n -> 1..NumVals] : n \in 0..MaxSrc}

InitIter ==
    /\ src \in Sources
    /\ pos = 0
    /\ stages \in Chains
    /\ out = NoPull
    /\ ArrayIdle
    /\ MapIdle

\* the consumer calls next() on the outermost iterator, which is of `kind`
Pull(kind) ==
    /\ TopKind = kind
    /\ out.dones < MaxDones
    /\ LET r == next(Iter, Len(stages))
       IN /\ pos' = r.S.pos
          /\ stages' = r.S.stages
          /\ out' = [out EXCEPT
                 !.op = "next",
                 !.result = r.result,
                 !.yielded = IF r.result.done THEN @
                             ELSE Append(@, r.result.value),
                 !.dones = IF r.result.done THEN @ + 1 ELSE @,
                 !.late = @ \/ (out.dones > 0 /\ ~r.result.done),
                 !.posBefore = pos,
                 !.nexts = r.S.nexts,
                 !.stagesBefore = stages]
    /\ UNCHANGED <<src, arrayVars, mapVars>>

\* the consumer calls frontBiasedPartition(size) on the outermost iterator
FrontBiasedPartition ==
    \E size \in 1..MaxSize :
        /\ ~out.drained
        /\ ~out.searched
        /\ out.dones < MaxDones
        /\ LET d == toArray(Iter, Len(stages))
               r == frontBiasedPartition(d.items, size)
           IN /\ pos' = d.S.pos
              /\ stages' = d.S.stages
              /\ out' = [out EXCEPT
                     !.op = "frontBiasedPartition",
                     !.size = size,
                     !.posBefore = pos,
                     !.input = d.items,
                     !.groups = r.output,
                     !.asserted = r.asserted,
                     !.drained = TRUE]
        /\ UNCHANGED <<src, arrayVars, mapVars>>

\* the consumer calls findMap(mapFn) on the outermost iterator, of numbers
FindMap ==
    \E f \in Predicates :
        /\ TopKind # "partition"
        /\ ~out.drained
        /\ ~out.searched
        /\ out.dones < MaxDones
        /\ LET r == findMap(Iter, Len(stages), f)
           IN /\ pos' = r.S.pos
              /\ stages' = r.S.stages
              /\ out' = [out EXCEPT
                     !.op = "findMap",
                     !.posBefore = pos,
                     !.nexts = r.S.nexts,
                     !.mapFn = f,
                     !.applied = r.applied,
                     !.found = r.found,
                     !.searched = TRUE]
        /\ UNCHANGED <<src, arrayVars, mapVars>>

NextIter ==
    \/ Pull("source")
    \/ Pull("takeWhile")
    \/ Pull("skipWhile")
    \/ Pull("partition")
    \/ FrontBiasedPartition
    \/ FindMap

SpecIter == InitIter /\ [][NextIter]_vars

\* the items of the sources that are filtered
TakeItems == {Obj(1, 1), Undefined, Null}

TakeSources == UNION {[1..n -> TakeItems] : n \in 0..MaxSrc}

\* the source alone, source.present() or source.nonNullable()
TakeChains == {<<>>, <<PresentIter>>, <<NonNullableIter>>}

InitTake ==
    /\ src \in TakeSources
    /\ pos = 0
    /\ stages \in TakeChains
    /\ out = NoPull
    /\ ArrayIdle
    /\ MapIdle

\* the consumer calls takeOne() on the outermost iterator
TakeOne ==
    /\ out.dones < MaxDones
    /\ LET r == takeOne(Iter, Len(stages))
       IN /\ pos' = r.S.pos
          /\ stages' = r.S.stages
          /\ out' = [out EXCEPT
                 !.op = "takeOne",
                 !.option = r.option,
                 !.result = r.result,
                 !.yielded = IF r.result.done THEN @
                             ELSE Append(@, r.result.value),
                 !.dones = IF r.result.done THEN @ + 1 ELSE @,
                 !.late = @ \/ (out.dones > 0 /\ ~r.result.done),
                 !.posBefore = pos,
                 !.nexts = r.S.nexts,
                 !.stagesBefore = stages]
    /\ UNCHANGED <<src, arrayVars, mapVars>>

NextTake ==
    \/ Pull("source")
    \/ Pull("present")
    \/ Pull("nonNullable")
    \/ TakeOne

SpecTake == InitTake /\ [][NextTake]_vars

\* source.skipWhile(p).takeWhile(q).partition(n)
Pipelines ==
    {<<SkipWhile(p), TakeWhile(q), Partition(n)>> :
        p \in Predicates, q \in Predicates, n \in 1..MaxSize}

InitPipeline ==
    /\ src \in Sources
    /\ pos = 0
    /\ stages \in Pipelines
    /\ out = NoPull
    /\ ArrayIdle
    /\ MapIdle

\* the consumer pulls the pipeline, whose outermost iterator is a partition
NextPipeline == Pull("partition")

SpecPipeline == InitPipeline /\ [][NextPipeline]_vars

----------------------------------------------------------------------------
(* Map                                                                      *)
(*   map    the entries of the map getOrSet is called on                    *)
(*   mlast  the last call on the map: its arguments, the entries before     *)
(*          it, what it returned and how often it called defaultValue       *)

\* this.has(key)
MapHas(m, key) == \E e \in m : e[1] = key

\* this.get(key): the value under key, undefined if there is none
MapGet(m, key) ==
    IF MapHas(m, key) THEN (CHOOSE e \in m : e[1] = key)[2] ELSE Undefined

\* this.set(key, value)
MapSet(m, key, value) == {e \in m : e[1] # key} \cup {<<key, value>>}

\* Map.prototype.getOrSet, with newValue what defaultValue() returns
getOrSet(this, key, newValue) ==
    LET result == MapGet(this, key)
    IN IF result # Undefined
       THEN [this |-> this, result |-> result, produced |-> 0]
       ELSE [this |-> MapSet(this, key, newValue), result |-> newValue,
             produced |-> 1]

\* map.set(key, value)
Set ==
    \E key \in MapKeys, value \in Values :
        /\ map' = MapSet(map, key, value)
        /\ mlast' = [op |-> "set", key |-> key, value |-> value,
                     before |-> map, result |-> Undefined, produced |-> 0]
        /\ UNCHANGED <<arrayVars, iterVars>>

\* map.getOrSet(key, () => newValue)
GetOrSet ==
    \E key \in MapKeys, newValue \in Values :
        LET r == getOrSet(map, key, newValue)
        IN /\ map' = r.this
           /\ mlast' = [op |-> "getOrSet", key |-> key, value |-> newValue,
                        before |-> map, result |-> r.result,
                        produced |-> r.produced]
           /\ UNCHANGED <<arrayVars, iterVars>>

InitMap ==
    /\ MapIdle
    /\ ArrayIdle
    /\ IterIdle

NextMap ==
    \/ Set
    \/ GetOrSet

SpecMap == InitMap /\ [][NextMap]_vars

----------------------------------------------------------------------------
(* Properties of the array helpers *)

\* s is ordered by cmp
Sorted(s, cmp) ==
    \A i, j \in 1..Len(s) : i < j => Cmp(cmp, s[i], s[j]) <= 0

\* after is before with v put at JavaScript index i, nothing else moved
InsertedAt(after, before, v, i) ==
    /\ Len(after) = Len(before) + 1
    /\ after[i + 1] = v
    /\ \A j \in 1..i : after[j] = before[j]
    /\ \A j \in (i + 1)..Len(before) : after[j + 1] = before[j]

\* after is before without its element at JavaScript index i
RemovedAt(after, before, i) ==
    /\ Len(after) = Len(before) - 1
    /\ \A j \in 1..i : after[j] = before[j]
    /\ \A j \in (i + 2)..Len(before) : after[j - 1] = before[j]

\* JavaScript indices of the elements of s that compare equal to v
EqualIndices(s, v, cmp) == {j \in 0..(Len(s) - 1) : Cmp(cmp, s[j + 1], v) = 0}

SetMin(S) == CHOOSE x \in S : \A y \in S : x <= y
SetMax(S) == CHOOSE x \in S : \A y \in S : x >= y

\* C1: insertOrdered on an array sorted under cmp returns the array, still
\* sorted under cmp, one longer, holding v and the previous elements in
\* their previous order; an array built from the empty array by
\* insertOrdered calls under one comparator is sorted under it.
C1_InsertOrderedKeepsSorted ==
    /\ (last.op = "insertOrdered" /\ Sorted(last.before, last.cmp)) =>
           /\ last.result = This
           /\ Sorted(arr, last.cmp)
           /\ Len(arr) = Len(last.before) + 1
           /\ \E i \in 0..Len(last.before) :
                  InsertedAt(arr, last.before, last.value, i)
    /\ chain \in Comparators => Sorted(arr, chain)

\* a value was inserted strictly inside a sorted array of distinct ranks
C1_Witness ==
    /\ last.op = "insertOrdered"
    /\ Sorted(last.before, last.cmp)
    /\ Len(last.before) >= 2
    /\ Cmp(last.cmp, last.before[1], last.value) < 0
    /\ Cmp(last.cmp, last.value, last.before[Len(last.before)]) < 0
    /\ last.result = This
    /\ chain = last.cmp

\* C2: on a sorted array holding elements equal to v under cmp, "low" puts
\* v at the index of the first equal element, "high" and an omitted policy
\* put it right after the last equal element; on the empty array v goes
\* to index 0 under every policy.
C2_DuplicatePolicy ==
    (last.op = "insertOrdered" /\ Sorted(last.before, last.cmp)) =>
        LET eq == EqualIndices(last.before, last.value, last.cmp)
        IN /\ (eq # {} /\ last.duplicates = "low") =>
                  InsertedAt(arr, last.before, last.value, SetMin(eq))
           /\ (eq # {} /\ last.duplicates \in {"high", "omitted"}) =>
                  InsertedAt(arr, last.before, last.value, SetMax(eq) + 1)
           /\ last.before = <<>> => arr = <<last.value>>

\* the policy was omitted and the value went in after two equal elements
\* that followed a smaller one
C2_Witness ==
    /\ last.op = "insertOrdered"
    /\ last.duplicates = "omitted"
    /\ Sorted(last.before, last.cmp)
    /\ Cardinality(EqualIndices(last.before, last.value, last.cmp)) >= 2
    /\ Cmp(last.cmp, last.before[1], last.value) < 0
    /\ last.result = This
    /\ arr[Len(arr)] = last.value

\* C7: insert at an integer index i in [0, length] returns the array itself,
\* one longer, get(i) is Some(v), the elements before i are unchanged and
\* the elements from i on have moved up by one.
C7_InsertAtIndex ==
    (/\ last.op = "insert"
     /\ IsInteger(last.index)
     /\ last.index >= 0
     /\ last.index <= Num(Len(last.before))) =>
        /\ last.result = This
        /\ Len(arr) = Len(last.before) + 1
        /\ get(arr, last.index) = Some(last.value)
        /\ InsertedAt(arr, last.before, last.value, Whole(last.index))
        /\ last.index = Num(Len(last.before)) =>
               arr = Append(last.before, last.value)

\* a value was inserted strictly inside an array, displacing another value
C7_Witness ==
    /\ last.op = "insert"
    /\ last.result = This
    /\ Whole(last.index) > 0
    /\ Whole(last.index) < Len(last.before)
    /\ last.before[Whole(last.index) + 1] # last.value

\* C8: insert throws TypeError for every non-integer index, RangeError for
\* every integer index outside [0, length], leaves the array unchanged in
\* both cases, and never fails for an integer index in [0, length].
C8_InsertErrors ==
    last.op = "insert" =>
        /\ ~IsInteger(last.index) =>
               last.result = Throw("TypeError") /\ arr = last.before
        /\ (IsInteger(last.index)
            /\ (last.index < 0 \/ last.index > Num(Len(last.before)))) =>
               last.result = Throw("RangeError") /\ arr = last.before
        /\ (IsInteger(last.index) /\ last.index >= 0
            /\ last.index <= Num(Len(last.before))) =>
               last.result = This

\* a non-integer index beyond the end of a non-empty array was rejected
C8_Witness ==
    /\ last.op = "insert"
    /\ ~IsInteger(last.index)
    /\ last.index > Num(Len(last.before))
    /\ Len(last.before) > 0
    /\ last.result = Throw("TypeError")

\* C9: remove(value) removes the lowest-index element equal to value and
\* returns Some of it, the rest keeping their order; it returns None, the
\* array unchanged, exactly when no element equals value.
C9_RemoveFirstMatch ==
    last.op = "remove" =>
        LET hits == {j \in 0..(Len(last.before) - 1) :
                         last.before[j + 1] = last.value}
        IN /\ hits # {} =>
                  /\ last.result = Some(last.value)
                  /\ RemovedAt(arr, last.before, SetMin(hits))
           /\ hits = {} => last.result = None /\ arr = last.before
           /\ last.result = None <=> hits = {}

\* C10: removeIndex at an integer index in [0, length) removes that element
\* and returns Some of it whatever it is; at an integer index outside it
\* returns None, the array unchanged; None only for an index out of range.
C10_RemoveIndex ==
    (last.op = "removeIndex" /\ IsInteger(last.index)) =>
        LET inRange == last.index >= 0 /\ last.index < Num(Len(last.before))
        IN /\ inRange =>
                  /\ last.result = Some(last.before[Whole(last.index) + 1])
                  /\ RemovedAt(arr, last.before, Whole(last.index))
           /\ ~inRange => last.result = None /\ arr = last.before
           /\ last.result = None => ~inRange

\* an integer index outside [0, length)
OutOfRange(index, s) ==
    IsInteger(index) /\ (index < 0 \/ index >= Num(Len(s)))

\* C13 as stated: removeIndex and get return None for every out-of-range
\* integer index and both throw TypeError for every non-integer index.
C13_BothThrowOnNonInteger ==
    last.op \in {"removeIndex", "get"} =>
        /\ OutOfRange(last.index, last.before) =>
               last.result = None /\ arr = last.before
        /\ ~IsInteger(last.index) => last.result = Throw("TypeError")

\* C13 amended: removeIndex and get return None for every out-of-range
\* integer index; removeIndex throws TypeError for every non-integer index,
\* get returns None for it; the array is unchanged in all these cases.
C13_IndexErrors ==
    last.op \in {"removeIndex", "get"} =>
        /\ OutOfRange(last.index, last.before) =>
               last.result = None /\ arr = last.before
        /\ (~IsInteger(last.index) /\ last.op = "removeIndex") =>
               last.result = Throw("TypeError") /\ arr = last.before
        /\ (~IsInteger(last.index) /\ last.op = "get") =>
               last.result = None /\ arr = last.before

\* removeIndex was called with a non-integer index between two elements
C13_Witness ==
    /\ last.op = "removeIndex"
    /\ ~IsInteger(last.index)
    /\ last.index > 0
    /\ last.index < Num(Len(last.before) - 1)
    /\ last.result = Throw("TypeError")

\* get was called with a non-integer index between two elements
C13_WitnessGet ==
    /\ last.op = "get"
    /\ ~IsInteger(last.index)
    /\ last.index > 0
    /\ last.index < Num(Len(last.before) - 1)
    /\ last.result = None

\* C14: get returns Some(v) exactly for an index that is an assigned
\* position of the array, v being the element there, undefined included;
\* it returns None for a negative index, an index >= length and a hole,
\* and never changes the array.
C14_CheckedGet ==
    last.op = "get" =>
        LET i == Whole(last.index)
            assigned == /\ IsInteger(last.index)
                        /\ i >= 0
                        /\ i < Len(last.before)
                        /\ last.before[i + 1] # Hole
        IN /\ arr = last.before
           /\ assigned => last.result = Some(last.before[i + 1])
           /\ ~assigned => last.result = None

\* get returned Some(undefined) from an array that also has a hole
C14_Witness ==
    /\ last.op = "get"
    /\ last.result = Some(Undefined)
    /\ \E j \in 1..Len(arr) : arr[j] = Hole

\* get returned None for a hole inside the array
C14_WitnessHole ==
    /\ last.op = "get"
    /\ IsInteger(last.index)
    /\ last.index >= 0
    /\ last.index < Num(Len(arr))
    /\ last.result = None

\* the elements of s other than the excluded ones and holes, in order
Without(s, excluded) ==
    LET keep(value) == value # Hole /\ value \notin excluded
    IN SelectSeq(s, keep)

\* C16: nonNullable returns a new array holding exactly the elements that
\* are neither undefined nor null, in their order; present returns one
\* holding exactly the elements that are not undefined; neither changes
\* the array it is called on.
C16_FilterNullish ==
    /\ last.op = "nonNullable" =>
           /\ last.copy = Without(last.before, {Undefined, Null})
           /\ arr = last.before
    /\ last.op = "present" =>
           /\ last.copy = Without(last.before, {Undefined})
           /\ arr = last.before

----------------------------------------------------------------------------
(* Properties of the iterator adapters *)

RECURSIVE Flatten(_)
\* the groups of gs joined in order
Flatten(gs) == IF gs = <<>> THEN <<>> ELSE Head(gs) \o Flatten(Tail(gs))

\* ceil(a / b) for a >= 0, b > 0
CeilDiv(a, b) == (a + b - 1) \div b

\* how many groups of gs have length k
CountOfLength(gs, k) == Cardinality({i \in 1..Len(gs) : Len(gs[i]) = k})

\* the groups partition(n) yields when pulled to done over the items xs
PartitionAll(xs, n) ==
    toArray([src |-> xs, pos |-> 0, stages |-> <<Partition(n)>>,
             nexts |-> 0], 1).items

\* the outermost iterator is the one adapter of this kind on the source
Single(kind) == Len(stages) = 1 /\ stages[1].kind = kind

\* the consumer has only pulled, never drained
OnlyPulled == ~out.drained /\ ~out.searched

\* C3: partition(n) over a source of length L never yields an empty group,
\* its groups joined are the items pulled so far, and once it has returned
\* done it has yielded ceil(L / n) groups, all of length n except possibly
\* the last, which joined are the whole source.
C3_PartitionGroups ==
    (Single("partition") /\ OnlyPulled) =>
        LET n == stages[1].size
            L == Len(src)
            gs == out.yielded
        IN /\ \A i \in 1..Len(gs) : Len(gs[i]) >= 1 /\ Len(gs[i]) <= n
           /\ \A i \in 1..(Len(gs) - 1) : Len(gs[i]) = n
           /\ Flatten(gs) = SubSeq(src, 1, pos)
           /\ out.dones > 0 =>
                  /\ Len(gs) = CeilDiv(L, n)
                  /\ Flatten(gs) = src

\* a partition ran to done over a source that ends inside a group, after at
\* least one full group
C3_Witness ==
    /\ Single("partition")
    /\ OnlyPulled
    /\ out.dones > 0
    /\ Len(src) % stages[1].size # 0
    /\ Len(out.yielded) >= 2
    /\ Len(out.yielded[Len(out.yielded)]) < stages[1].size

\* C4: frontBiasedPartition(n) on a source with L items left returns groups
\* with the same lengths as partition(n) yields, the short group of length
\* L mod n first (none if L mod n = 0), which joined are those L items, and
\* leaves the source drained.
C4_FrontBiasedPartition ==
    (out.op = "frontBiasedPartition" /\ stages = <<>>) =>
        LET n == out.size
            input == SubSeq(src, out.posBefore + 1, Len(src))
            L == Len(input)
            gs == out.groups
        IN /\ out.asserted
           /\ \A k \in 0..n :
                  CountOfLength(gs, k) = CountOfLength(PartitionAll(input, n), k)
           /\ L % n # 0 =>
                  /\ Len(gs[1]) = L % n
                  /\ \A i \in 2..Len(gs) : Len(gs[i]) = n
           /\ L % n = 0 => \A i \in 1..Len(gs) : Len(gs[i]) = n
           /\ Flatten(gs) = input
           /\ pos = Len(src)

\* a source was drained into a short first group followed by full groups
C4_Witness ==
    /\ out.op = "frontBiasedPartition"
    /\ stages = <<>>
    /\ Len(out.groups) >= 2
    /\ Len(out.groups[1]) < out.size
    /\ Len(out.groups[2]) = out.size

\* some item pulled from the source fails the predicate p at its index
Rejected(p) == \E i \in 1..pos : ~Pred(p, src[i], i - 1)

\* C5: for takeWhile, the items pulled from the source are the items
\* yielded, plus one exactly if the predicate has rejected an item; the
\* rejected item is the last one ever pulled, and the adapter is then done.
C5_TakeWhileConsumption ==
    (Single("takeWhile") /\ OnlyPulled) =>
        LET p == stages[1].predicate
        IN /\ pos = Len(out.yielded) + (IF Rejected(p) THEN 1 ELSE 0)
           /\ out.yielded = SubSeq(src, 1, Len(out.yielded))
           /\ Rejected(p) =>
                  /\ ~Pred(p, src[pos], pos - 1)
                  /\ \A i \in 1..(pos - 1) : Pred(p, src[i], i - 1)
                  /\ out.dones > 0
           /\ (out.dones > 0 /\ ~Rejected(p)) => pos = Len(src)

\* a takeWhile was pulled again after its predicate rejected an item that
\* was neither the first nor the last of the source
C5_Witness ==
    /\ Single("takeWhile")
    /\ OnlyPulled
    /\ Rejected(stages[1].predicate)
    /\ out.dones >= 2
    /\ Len(out.yielded) >= 1
    /\ pos < Len(src)

\* C6: once a pull on a takeWhile, skipWhile or partition has returned
\* done, no later pull on it yields an item.
C6_DoneIsPermanent ==
    (Len(stages) = 1 /\ OnlyPulled) =>
        /\ ~out.late
        /\ out.dones > 0 => out.result.done

\* a takeWhile that stopped at a rejected item was pulled again while the
\* source still held an item its predicate accepts
C6_Witness ==
    /\ Single("takeWhile")
    /\ OnlyPulled
    /\ out.dones >= 2
    /\ pos < Len(src)
    /\ Pred(stages[1].predicate, src[pos + 1], pos)

\* a skipWhile and a partition were pulled again after returning done
C6_WitnessSkipWhile == Single("skipWhile") /\ OnlyPulled /\ out.dones >= 2
C6_WitnessPartition == Single("partition") /\ OnlyPulled /\ out.dones >= 2

----------------------------------------------------------------------------
(* Properties of getOrSet *)

\* C11: getOrSet on a missing key calls defaultValue once, stores what it
\* returns under the key, returns it and changes no other entry; on a
\* present key it returns the current value, does not call defaultValue and
\* leaves the map unchanged.
C11_GetOrSet ==
    mlast.op = "getOrSet" =>
        /\ ~MapHas(mlast.before, mlast.key) =>
               /\ mlast.produced = 1
               /\ mlast.result = mlast.value
               /\ map = mlast.before \cup {<<mlast.key, mlast.value>>}
        /\ MapHas(mlast.before, mlast.key) =>
               /\ mlast.produced = 0
               /\ mlast.result = MapGet(mlast.before, mlast.key)
               /\ map = mlast.before

\* C12: getOrSet on a key that is present with the value undefined does not
\* call defaultValue and leaves the map unchanged.
C12_GetOrSetPresentUndefined ==
    (/\ mlast.op = "getOrSet"
     /\ <<mlast.key, Undefined>> \in mlast.before) =>
        /\ mlast.produced = 0
        /\ map = mlast.before

\* C15: findMap on a source applies mapFn to the items left, in order, with
\* indices 0, 1, ...; it returns the mapping of the first item that has one
\* and has then pulled the items up to and including that item; if no item
\* has a mapping it returns undefined, having applied mapFn once to every
\* item.
C15_FindMap ==
    (out.op = "findMap" /\ stages = <<>>) =>
        LET rest == SubSeq(src, out.posBefore + 1, Len(src))
            hits == {j \in 1..Len(rest) : Pred(out.mapFn, rest[j], j - 1)}
            n == Len(out.applied)
        IN /\ \A j \in 1..n : out.applied[j] = <<rest[j], j - 1>>
           /\ pos = out.posBefore + n
           /\ hits # {} =>
                  /\ n = SetMin(hits)
                  /\ out.found = Mapped(rest[n], n - 1)
           /\ hits = {} =>
                  /\ n = Len(rest)
                  /\ out.found = Undefined

\* findMap found its item after passing one and before the last item of a
\* source that had already been pulled once
C15_Witness ==
    /\ out.op = "findMap"
    /\ stages = <<>>
    /\ out.found # Undefined
    /\ Len(out.applied) >= 2
    /\ out.posBefore >= 1
    /\ pos < Len(src)

\* findMap ran through a source in which no item has a mapping
C15_WitnessNone ==
    /\ out.op = "findMap"
    /\ stages = <<>>
    /\ out.found = Undefined
    /\ Len(out.applied) >= 2

\* the number of items a skipWhile with predicate p has discarded: the
\* length of the longest run of pulled items, from the first, that p holds of
Discarded(p) ==
    SetMax({k \in 0..pos : \A i \in 1..k : Pred(p, src[i], i - 1)})

\* C17 as stated: for skipWhile, the number of items pulled from the source
\* equals the number of items yielded.
C17_PulledEqualsYielded ==
    (Single("skipWhile") /\ OnlyPulled) => pos = Len(out.yielded)

\* C17 amended: for skipWhile, the number of items pulled from the source
\* equals the number of items yielded plus the number of items discarded,
\* and the items yielded are the pulled items after the discarded ones.
C17_SkipWhileConsumption ==
    (Single("skipWhile") /\ OnlyPulled) =>
        LET k == Discarded(stages[1].predicate)
        IN /\ pos = Len(out.yielded) + k
           /\ out.yielded = SubSeq(src, k + 1, pos)

\* a skipWhile discarded items and has then yielded more than one item
C17_Witness ==
    /\ Single("skipWhile")
    /\ OnlyPulled
    /\ Discarded(stages[1].predicate) >= 1
    /\ Len(out.yielded) >= 2

\* C18: skipWhile calls predicate(value, index) with index the number of
\* items discarded so far and discards while it holds; the first item it
\* does not hold of is yielded; every later pull makes exactly one pull on
\* the source, returns its result and does not evaluate the predicate.
C18_SkipWhileTransparent ==
    (Single("skipWhile") /\ OnlyPulled /\ out.op = "next") =>
        LET p == stages[1].predicate
            k == Discarded(p)
            before == out.stagesBefore[1]
        IN /\ stages[1].skipped <=> k < pos
           /\ stages[1].index = IF stages[1].skipped THEN k + 1 ELSE k
           /\ stages[1].skipped => out.yielded[1] = src[k + 1]
           /\ (~before.skipped /\ ~out.result.done) =>
                  /\ out.result = Yield(src[k + 1])
                  /\ pos = k + 1
           /\ before.skipped =>
                  /\ out.nexts = 1
                  /\ stages[1] = before
                  /\ out.posBefore < Len(src) =>
                         /\ pos = out.posBefore + 1
                         /\ out.result = Yield(src[pos])
                  /\ out.posBefore = Len(src) =>
                         /\ pos = out.posBefore
                         /\ out.result = DoneResult

\* a skipWhile that had discarded an item and yielded the first rejected one
\* was pulled again and yielded an item its predicate holds of
C18_Witness ==
    /\ Single("skipWhile")
    /\ OnlyPulled
    /\ out.op = "next"
    /\ out.stagesBefore[1].skipped
    /\ Discarded(stages[1].predicate) >= 1
    /\ ~out.result.done
    /\ Pred(stages[1].predicate, out.result.value, stages[1].index)

\* the length of the longest prefix of xs that p holds of, p being given
\* each item with its position in xs, counted from 0
PrefixLen(xs, p) ==
    SetMax({k \in 0..Len(xs) : \A i \in 1..k : Pred(p, xs[i], i - 1)})

\* list-level skipWhile: xs without its longest p-prefix
DropPrefix(xs, p) == SubSeq(xs, PrefixLen(xs, p) + 1, Len(xs))

\* list-level takeWhile: the longest q-prefix of xs
KeepPrefix(xs, q) == SubSeq(xs, 1, PrefixLen(xs, q))

\* list-level partition: xs cut into groups of n, the last one the rest
Chunks(xs, n) ==
    [g \in 1..CeilDiv(Len(xs), n) |->
        SubSeq(xs, (g - 1) * n + 1, SetMin({g * n, Len(xs)}))]

\* C19: the groups source.skipWhile(p).takeWhile(q).partition(n) has
\* yielded are the first groups of Chunks(KeepPrefix(DropPrefix(xs, p), q),
\* n), and all of them once a pull has returned done; the source is never
\* advanced past its end, each next() on it advances it by one item unless
\* it is at its end, and after each pull it stands at most n items per
\* yielded group, plus the item q rejected, past the discarded prefix.
C19_Composition ==
    LET p == stages[1].predicate
        q == stages[2].predicate
        n == stages[3].size
        k == PrefixLen(src, p)
        kept == KeepPrefix(DropPrefix(src, p), q)
        ref == Chunks(kept, n)
        g == Len(out.yielded)
    IN /\ g <= Len(ref)
       /\ out.yielded = SubSeq(ref, 1, g)
       /\ out.dones > 0 => out.yielded = ref
       /\ pos <= Len(src)
       /\ pos >= out.posBefore
       /\ out.nexts - (pos - out.posBefore) \in {0, 1}
       /\ out.nexts > pos - out.posBefore => pos = Len(src)
       /\ out.dones >= 2 => out.nexts = 0
       /\ pos <= k + n * g + 1
       /\ pos <= k + Len(kept) + 1
       /\ (out.op = "next" /\ ~out.result.done /\ Len(out.result.value) = n
           /\ out.dones = 0) => pos = k + n * g

\* the pipeline was pulled to done after discarding an item, yielding two
\* groups and having an item rejected by q before the end of the source
C19_Witness ==
    /\ PrefixLen(src, stages[1].predicate) >= 1
    /\ Len(out.yielded) >= 2
    /\ out.dones >= 1
    /\ pos = PrefixLen(src, stages[1].predicate)
             + Len(KeepPrefix(DropPrefix(src, stages[1].predicate),
                              stages[2].predicate)) + 1
    /\ pos <= Len(src)

\* the pipeline was pulled to done and its last group is shorter than n
C19_WitnessPartial ==
    /\ PrefixLen(src, stages[1].predicate) >= 1
    /\ Len(out.yielded) >= 2
    /\ out.dones >= 1
    /\ Len(out.yielded[Len(out.yielded)]) < stages[3].size

\* the items of xs in reverse order
Reverse(xs) == [i \in 1..Len(xs) |-> xs[Len(xs) + 1 - i]]

\* the items of xs that have key k, in the order they have in xs
WithKey(xs, k) == SelectSeq(xs, LAMBDA x : x.key = k)

\* C20: after insertOrdered calls on an empty array, all with one comparator
\* and the "high" policy (passed or by default), the elements that compare
\* equal stand in the array in the order they were inserted in; with the
\* "low" policy in every call they stand in the reverse of that order.
C20_StableOrder ==
    /\ Len(arr) = Len(hist.values)
    /\ \A k \in 1..NumKeys :
        /\ hist.policy = "high" =>
               WithKey(arr, k) = WithKey(hist.values, k)
        /\ hist.policy = "low" =>
               WithKey(arr, k) = Reverse(WithKey(hist.values, k))

\* three elements of one key, two of them distinct, were inserted next to an
\* element of another key under the default policy
C20_Witness ==
    /\ hist.policy = "high"
    /\ last.duplicates = "omitted"
    /\ \E k \in 1..NumKeys :
        /\ Len(WithKey(arr, k)) >= 3
        /\ WithKey(arr, k)[1] # WithKey(arr, k)[2]
        /\ Len(arr) > Len(WithKey(arr, k))

\* the same under the "low" policy
C20_WitnessLow ==
    /\ hist.policy = "low"
    /\ \E k \in 1..NumKeys :
        /\ Len(WithKey(arr, k)) >= 3
        /\ WithKey(arr, k)[1] # WithKey(arr, k)[2]
        /\ Len(arr) > Len(WithKey(arr, k))

====
